---------------------------- MODULE Spec2Model ----------------------------
(***************************************************************************)
(* Block Data Explorer (src/Block.py): the ingestion pipeline              *)
(* load_block_data (read, concat, expected columns, ID, drop_duplicates,   *)
(* time parsing, derived durations), its st.cache_data memo, the upload    *)
(* path, the filter engine, the group-by aggregation, the HH:MM formatter  *)
(* and the BlockAllData.csv export, as one state machine whose steps are   *)
(* the script reruns that Streamlit performs on every interaction.         *)
(*                                                                         *)
(* Texts are sequences of one-character strings so that strip, substring   *)
(* search, concatenation and formatting are computed character by          *)
(* character.  A missing text cell is NA, a missing number or timestamp is *)
(* NaN (the empty tuple), a present number n is <<n>>.  Timestamps are     *)
(* minutes since midnight of one day, so a timestamp difference is already *)
(* the value of total_seconds()/60.                                        *)
(*                                                                         *)
(* Of the seventeen expected columns the model carries ten: four text      *)
(* columns, the five time columns the metrics use and one source numeric   *)
(* column; the others are handled by the code exactly like these.          *)
(***************************************************************************)
EXTENDS Integers, Sequences, FiniteSets, TLC

VARIABLES disk, memo, all_files, uploaded_file, selected, remark_query,
          group_cols, selected_numeric, status, df_merged, df_view,
          grouped, display, snapshot

vars == <<disk, memo, all_files, uploaded_file, selected, remark_query,
          group_cols, selected_numeric, status, df_merged, df_view,
          grouped, display, snapshot>>

-----------------------------------------------------------------------------
(* Bounds of the exploration *)

\* most files ./Data holds at one time
MaxFiles == 2

\* most widget settings away from their defaults at one time: filter values
\* selected, a search typed, group-by columns changed, metrics deselected
MaxChanged == 2

-----------------------------------------------------------------------------
(* Values *)

NA == <<"<NA>">>
NaN == <<>>
Num(n) == <<n>>
IsNaN(v) == Len(v) = 0

RECURSIVE SumSeq(_)
SumSeq(s) == IF s = <<>> THEN 0 ELSE Head(s) + SumSeq(Tail(s))

RECURSIVE Flatten(_)
Flatten(ss) == IF ss = <<>> THEN <<>> ELSE Head(ss) \o Flatten(Tail(ss))

\* astype(str): a missing cell becomes the text "nan" (a column that line 41
\* fills with pd.NA reads "<NA>" in every row alike, which no comparison of IDs
\* can tell from "nan")
Str(v) == IF v = NA THEN <<"n", "a", "n">> ELSE v

Upper == <<"A","B","C","D","E","F","G","H","I","J","K","L","M",
           "N","O","P","Q","R","S","T","U","V","W","X","Y","Z">>
Lowers == <<"a","b","c","d","e","f","g","h","i","j","k","l","m",
            "n","o","p","q","r","s","t","u","v","w","x","y","z">>

LowerChar(c) ==
    IF \E i \in 1..26 : Upper[i] = c
    THEN Lowers[CHOOSE i \in 1..26 : Upper[i] = c]
    ELSE c

Lower(t) == [i \in 1..Len(t) |-> LowerChar(t[i])]

Digits == <<"0","1","2","3","4","5","6","7","8","9">>
IsDigit(c) == \E i \in 1..10 : Digits[i] = c
DigitVal(c) == (CHOOSE i \in 1..10 : Digits[i] = c) - 1

\* str.strip(): drop leading and trailing blanks
RECURSIVE LStrip(_)
LStrip(t) == IF t # <<>> /\ Head(t) = " " THEN LStrip(Tail(t)) ELSE t

RECURSIVE RStrip(_)
RStrip(t) ==
    IF t # <<>> /\ t[Len(t)] = " " THEN RStrip(SubSeq(t, 1, Len(t) - 1)) ELSE t

Strip(t) == RStrip(LStrip(t))

\* q occurs in t as a contiguous run of characters
Contains(t, q) ==
    \E i \in 0..(Len(t) - Len(q)) : SubSeq(t, i + 1, i + Len(q)) = q

-----------------------------------------------------------------------------
(* Columns *)

expected == {"Station", "Block Section", "Type", "Remark",
             "Requested Start Time", "Requested End Time",
             "Permitted Start Time", "Permitted End Time",
             "Clear Time", "Burst Duration (In Minutes)"}

time_cols == {"Requested Start Time", "Requested End Time",
              "Permitted Start Time", "Permitted End Time", "Clear Time"}

derived_cols == {"Demanded", "Granted", "Availed", "Burst"}

\* the columns read_csv reads as numbers
number_cols == {"Burst Duration (In Minutes)"}

\* the missing value of a column
Missing(c) == IF c \in number_cols \cup derived_cols THEN NaN ELSE NA

\* the values read_csv turns into a missing cell: the na_values of the call
\* and, of pandas' defaults (keep_default_na), the text "nan"
na_values == { <<"-">>, <<"-", "-">>, <<"N", "/", "A">>, <<"N", "A">>,
               <<"n", "u", "l", "l">>, <<"N", "u", "l", "l">>,
               <<"N", "U", "L", "L">>, <<>>, <<" ">>, <<"n", "a", "n">> }

EmptyFrame == [columns |-> {}, rows |-> <<>>]

IsEmpty(df) == df.rows = <<>> \/ df.columns = {}

-----------------------------------------------------------------------------
(* The sources that may lie in ./Data or be uploaded *)

t0900 == <<"0", "9", ":", "0", "0">>
t1000 == <<"1", "0", ":", "0", "0">>
t1000sp == <<" ", "1", "0", ":", "0", "0", " ">>
t1045 == <<"1", "0", ":", "4", "5">>
t1090 == <<"1", "0", ":", "9", "0">>
t1100 == <<"1", "1", ":", "0", "0">>
t1130 == <<"1", "1", ":", "3", "0">>
t1215 == <<"1", "2", ":", "1", "5">>
hyphen == <<"-">>
sphyphen == <<" ", "-">>

Cells(st, bs, ty, rm, rs, re, ps, pe, ct, bd) ==
    [c \in expected |->
        CASE c = "Station" -> st
          [] c = "Block Section" -> bs
          [] c = "Type" -> ty
          [] c = "Remark" -> rm
          [] c = "Requested Start Time" -> rs
          [] c = "Requested End Time" -> re
          [] c = "Permitted Start Time" -> ps
          [] c = "Permitted End Time" -> pe
          [] c = "Clear Time" -> ct
          [] c = "Burst Duration (In Minutes)" -> bd]

Restrict(f, S) == [c \in S |-> f[c]]

rowA1 == Cells(<<"A">>, <<"S", "1">>, <<"X">>, <<"T", "r", "a", "c", "k", " ", "F", "a", "i", "l">>,
               t1000, t1130, t1000, t1100, t1045, <<"3", "0">>)
\* the identity of rowA1, other columns differing
rowA1dup == Cells(<<"A">>, <<"S", "1">>, <<"Y">>, <<"o", "k">>,
                  t1000, t1130, t1000, t1100, t1130, <<"1", "5">>)
\* permitted end before permitted start, requested start missing, clear time unparseable
rowB1 == Cells(<<"B">>, <<"S", "1">>, <<"X">>, hyphen,
               hyphen, t1130, t1100, t1045, t1090, <<"N", "A">>)
\* same timestamps as rowA1 in another section, written with blanks; no type
rowA2 == Cells(<<"A">>, <<"S", "2">>, <<"N", "A">>, <<"f", "a", "i", "l", ".">>,
               t1000sp, t1130, t1000, t1215, t1130, <<>>)
rowB2 == Cells(<<"B">>, <<"S", "2">>, <<"Y">>, <<"o", "k">>,
               t0900, t1000, sphyphen, t1100, t1000, <<"2", "0">>)

\* headers that lack expected columns
cols_no_clear == expected \ {"Clear Time"}
cols_short == expected \ {"Remark", "Clear Time", "Burst Duration (In Minutes)"}

FileNames == {"a.csv", "b.csv", "bad.csv"}

\* what is in a file of a given name: a header and rows of raw cells, or bytes
\* that are no table
Content(f) ==
    CASE f = "a.csv" ->
           [parseable |-> TRUE, columns |-> expected,
            rows |-> <<rowA1, rowB1, rowA1dup>>]
      [] f = "b.csv" ->
           [parseable |-> TRUE, columns |-> cols_no_clear,
            rows |-> <<Restrict(rowA2, cols_no_clear),
                       Restrict(rowA1dup, cols_no_clear),
                       Restrict(rowB2, cols_no_clear)>>]
      [] f = "c.csv" ->
           [parseable |-> TRUE, columns |-> cols_short,
            rows |-> <<Restrict(rowB2, cols_short),
                       Restrict(rowA2, cols_short),
                       Restrict(rowB2, cols_short)>>]
      [] f = "bad.csv" ->
           [parseable |-> FALSE, columns |-> {}, rows |-> <<>>]

-----------------------------------------------------------------------------
(* load_block_data *)

\* a row of the frame: the columns' cells and the row's index label
WithIndex(cells, cols, i) ==
    [c \in cols \cup {"index"} |-> IF c = "index" THEN i ELSE cells[c]]

\* the number a run of decimal digits writes
RECURSIVE ParseInt(_)
ParseInt(t) ==
    IF t = <<>> THEN 0
    ELSE 10 * ParseInt(SubSeq(t, 1, Len(t) - 1)) + DigitVal(t[Len(t)])

\* pd.read_csv(file, na_values=[...], keep_default_na=True) of a parseable file:
\* a cell that is one of the na values is missing, a cell of a number column
\* is the number it writes
read_csv(f) ==
    LET src == Content(f)
    IN  [columns |-> src.columns,
         rows |-> [i \in 1..Len(src.rows) |->
                    WithIndex([c \in src.columns |->
                                 IF src.rows[i][c] \in na_values THEN Missing(c)
                                 ELSE IF c \in number_cols
                                      THEN Num(ParseInt(src.rows[i][c]))
                                      ELSE src.rows[i][c]],
                              src.columns, i - 1)]]

\* a row over the columns cols, the cells it lacks missing
Reindex(row, have, cols, i) ==
    WithIndex([c \in cols |-> IF c \in have THEN row[c] ELSE Missing(c)], cols, i)

\* pd.concat(frames, ignore_index=True)
concat(frames) ==
    LET cols == UNION {frames[k].columns : k \in 1..Len(frames)}
        all == Flatten([k \in 1..Len(frames) |->
                  [i \in 1..Len(frames[k].rows) |->
                      Reindex(frames[k].rows[i], frames[k].columns, cols, 0)]])
    IN  [columns |-> cols,
         rows |-> [i \in 1..Len(all) |->
                     [all[i] EXCEPT !["index"] = i - 1]]]

\* for c in expected: if c not in df_merged.columns: df_merged[c] = pd.NA
AddExpected(df) ==
    LET cols == df.columns \cup expected
    IN  [columns |-> cols,
         rows |-> [i \in 1..Len(df.rows) |->
                     Reindex(df.rows[i], df.columns, cols, df.rows[i]["index"])]]

Slash == <<"/">>

\* the ID of a row, from the raw cells
BuildID(row) ==
    Str(row["Station"]) \o Slash \o
    Str(row["Block Section"]) \o Slash \o
    Str(row["Block Section"]) \o Slash \o
    Str(row["Requested Start Time"]) \o Slash \o
    Str(row["Requested End Time"]) \o Slash \o
    Str(row["Permitted Start Time"]) \o Slash \o
    Str(row["Permitted End Time"])

\* df[c] = vals[c] for the columns c of new, vals[i] holding the new cells of row i
SetCols(df, new, vals) ==
    LET cols == df.columns \cup new
    IN  [columns |-> cols,
         rows |-> [i \in 1..Len(df.rows) |->
                     [c \in cols \cup {"index"} |->
                        IF c \in new THEN vals[i][c] ELSE df.rows[i][c]]]]

AddID(df) ==
    SetCols(df, {"ID"},
            [i \in 1..Len(df.rows) |-> [c \in {"ID"} |-> BuildID(df.rows[i])]])

\* drop_duplicates(subset=["ID"], keep="first"): a scan that keeps a row when
\* its ID was not met before
RECURSIVE DropScan(_, _)
DropScan(rows, seen) ==
    IF rows = <<>> THEN <<>>
    ELSE IF Head(rows)["ID"] \in seen
         THEN DropScan(Tail(rows), seen)
         ELSE <<Head(rows)>> \o DropScan(Tail(rows), seen \cup {Head(rows)["ID"]})

\* drop_duplicates as keep="last" would do it
drop_duplicates_keep_last(df) ==
    [df EXCEPT !.rows =
        SelectSeq(df.rows,
            LAMBDA r : \A j \in 1..Len(df.rows) :
                df.rows[j]["ID"] = r["ID"] => df.rows[j]["index"] <= r["index"])]

drop_duplicates(df) == [df EXCEPT !.rows = DropScan(df.rows, {})]

\* .astype("string").str.strip().replace({"-": NA, "--": NA})
CleanTime(v) ==
    IF v = NA THEN NA
    ELSE LET s == Strip(v)
         IN  IF s \in {<<"-">>, <<"-", "-">>} THEN NA ELSE s

\* pd.to_datetime(errors="coerce") of a time of day HH:MM; anything else is NaT
to_datetime(v) ==
    IF v = NA \/ Len(v) # 5 THEN NaN
    ELSE IF IsDigit(v[1]) /\ IsDigit(v[2]) /\ v[3] = ":"
            /\ IsDigit(v[4]) /\ IsDigit(v[5])
         THEN LET hh == 10 * DigitVal(v[1]) + DigitVal(v[2])
                  mm == 10 * DigitVal(v[4]) + DigitVal(v[5])
              IN  IF hh < 24 /\ mm < 60 THEN Num(60 * hh + mm) ELSE NaN
         ELSE NaN

ParseTimes(df) ==
    SetCols(df, time_cols,
            [i \in 1..Len(df.rows) |->
                [c \in time_cols |-> to_datetime(CleanTime(df.rows[i][c]))]])

\* (end - start).dt.total_seconds().div(60), and Granted - Availed: missing
\* when an operand is missing
\* the difference with a missing operand taken as 0
Minus_fill_zero(a, b) ==
    Num((IF IsNaN(a) THEN 0 ELSE a[1]) - (IF IsNaN(b) THEN 0 ELSE b[1]))

Minus(a, b) == IF IsNaN(a) \/ IsNaN(b) THEN NaN ELSE Num(a[1] - b[1])

Durations(r) ==
    LET demanded == Minus(r["Requested End Time"], r["Requested Start Time"])
        granted == Minus(r["Permitted End Time"], r["Permitted Start Time"])
        availed == Minus(r["Clear Time"], r["Permitted Start Time"])
    IN  [c \in derived_cols |->
           CASE c = "Demanded" -> demanded
             [] c = "Granted" -> granted
             [] c = "Availed" -> availed
             [] c = "Burst" -> Minus(granted, availed)]

Derive(df) ==
    SetCols(df, derived_cols, [i \in 1..Len(df.rows) |-> Durations(df.rows[i])])

\* the merged frame before the ID is built and duplicates are dropped
Merged(files) == AddID(AddExpected(concat([k \in 1..Len(files) |-> read_csv(files[k])])))

\* the body of load_block_data for the file list glob returned: the frame it
\* returns, or the exception read_csv raises on a file that is no table
load_block_data(files) ==
    IF files = <<>> THEN [raised |-> FALSE, df |-> EmptyFrame]
    ELSE IF \E k \in 1..Len(files) : ~Content(files[k]).parseable
         THEN [raised |-> TRUE, df |-> EmptyFrame]
         ELSE [raised |-> FALSE,
               df |-> Derive(ParseTimes(drop_duplicates(Merged(files))))]

-----------------------------------------------------------------------------
(* Helpers: the HH:MM formatter *)

\* the decimal digits of a natural number
RECURSIVE NatText(_)
NatText(n) ==
    IF n < 10 THEN <<Digits[n + 1]>>
    ELSE NatText(n \div 10) \o <<Digits[(n % 10) + 1]>>

\* the format spec 02d: sign, then digits, zero-padded to a width of two
Fmt02d(n) ==
    IF n < 0 THEN <<"-">> \o NatText(-n)
    ELSE IF n < 10 THEN <<"0">> \o NatText(n)
    ELSE NatText(n)

\* divmod(total_minutes, 60) floors: 0 <= mins < 60 whatever the sign
minutes_to_hhmm(minutes) ==
    IF IsNaN(minutes) THEN <<>>
    ELSE LET total_minutes == minutes[1]
             hours == total_minutes \div 60
             mins == total_minutes % 60
         IN  Fmt02d(hours) \o <<":">> \o Fmt02d(mins)

format_cols == {"Demanded", "Granted", "Availed", "Burst Duration (In Minutes)"}

\* format_duration_columns on rows whose columns are the sequence cols
format_duration_columns(cols, rows) ==
    [i \in 1..Len(rows) |->
        [c \in DOMAIN rows[i] |->
            IF c \in format_cols /\ \E k \in 1..Len(cols) : cols[k] = c
            THEN minutes_to_hhmm(rows[i][c])
            ELSE rows[i][c]]]

-----------------------------------------------------------------------------
(* The app: widgets *)

NoUpload == "none"

\* the files the uploader is given
UploadNames == {"c.csv", "bad.csv"}

\* label -> column of the exact-match filters, for the text columns carried
filters_map == {"Station", "Type", "Remark"}

\* options_map[label]: the distinct texts of the column's present cells
options_map(df, label) ==
    IF label \in df.columns
    THEN {Str(df.rows[i][label]) : i \in {j \in 1..Len(df.rows) : df.rows[j][label] # NA}}
    ELSE {}

\* the texts typed into the search box
Queries == { <<>>, <<"f", "a", "i", "l">>, <<"L", ".">> }

\* the group-by columns offered, of those carried: one that has missing values
\* and one that has none
groupby_options_exact == <<"Station", "Type">>

FilterSeq(s, S) == SelectSeq(s, LAMBDA x : x \in S)

groupby_options(df) == FilterSeq(groupby_options_exact, df.columns)

default_group(df) == FilterSeq(<<"Type">>, df.columns)

default_numeric == <<"Demanded", "Granted", "Availed", "Burst Duration (In Minutes)">>

numeric_cols(df) == FilterSeq(default_numeric, df.columns)

Range(s) == {s[i] : i \in 1..Len(s)}

\* what a widget returns in a rerun: the value the user left in it when the
\* widget was drawn by the previous run with the same options, its default when
\* it is drawn anew
WidgetValue(old_options, new_options, value, default) ==
    IF status = "ok" /\ old_options = new_options THEN value ELSE default

-----------------------------------------------------------------------------
(* The app: filters *)

\* df_view[df_view[col].astype(str).isin(selections)] for every label with
\* selections, then the Remark search
exact_match(df, sel) ==
    SelectSeq(df.rows,
        LAMBDA r : \A label \in filters_map :
            (sel[label] # {} /\ label \in df.columns) => Str(r[label]) \in sel[label])

\* .str.contains(re.escape(query), case=False, na=False, regex=True)
remark_contains(remark, query) ==
    remark # NA /\ Contains(Lower(remark), Lower(query))

apply_filters(df, sel, query) ==
    LET rows1 == exact_match(df, sel)
    IN  [columns |-> df.columns,
         rows |-> IF "Remark" \in df.columns /\ query # <<>>
                  THEN SelectSeq(rows1, LAMBDA r : remark_contains(r["Remark"], query))
                  ELSE rows1]

-----------------------------------------------------------------------------
(* The app: group by *)

GroupKey(r, gcols) == [k \in 1..Len(gcols) |-> r[gcols[k]]]

\* groupby(group_cols, dropna=False): the rows of each key met, a missing value
\* being a key value like any other
RECURSIVE GroupScan(_, _, _)
GroupScan(rows, gcols, acc) ==
    IF rows = <<>> THEN acc
    ELSE LET r == Head(rows)
             key == GroupKey(r, gcols)
             at == {k \in 1..Len(acc) : acc[k].key = key}
         IN  IF at = {}
             THEN GroupScan(Tail(rows), gcols,
                            Append(acc, [key |-> key, members |-> <<r>>]))
             ELSE GroupScan(Tail(rows), gcols,
                            [acc EXCEPT ![CHOOSE k \in at : TRUE].members = Append(@, r)])

\* the characters of the data in code point order
Ascii == <<" ", "-", ".", "/">> \o Digits \o <<":">> \o Upper \o Lowers

CharRank(c) == CHOOSE i \in 1..Len(Ascii) : Ascii[i] = c

RECURSIVE TextLess(_, _)
TextLess(a, b) ==
    IF b = <<>> THEN FALSE
    ELSE IF a = <<>> THEN TRUE
    ELSE IF Head(a) = Head(b) THEN TextLess(Tail(a), Tail(b))
    ELSE CharRank(Head(a)) < CharRank(Head(b))

\* the order of the values of a key column: texts ascending, missing last
CellLess(x, y) == x # NA /\ (y = NA \/ TextLess(x, y))

RECURSIVE KeyLess(_, _)
KeyLess(k1, k2) ==
    IF k1 = <<>> THEN FALSE
    ELSE IF Head(k1) = Head(k2) THEN KeyLess(Tail(k1), Tail(k2))
    ELSE CellLess(Head(k1), Head(k2))

\* groupby sorts the groups by key (sort=True)
RECURSIVE SortGroups(_)
SortGroups(groups) ==
    IF groups = <<>> THEN <<>>
    ELSE LET least == CHOOSE k \in 1..Len(groups) :
                        \A j \in 1..Len(groups) : ~KeyLess(groups[j].key, groups[k].key)
         IN  <<groups[least]>>
             \o SortGroups(SubSeq(groups, 1, least - 1)
                           \o SubSeq(groups, least + 1, Len(groups)))

\* "sum": the present values added up, 0 when there is none
\* the sum with negative values clipped to 0
GroupSum_clipped(members, c) ==
    SumSeq([i \in 1..Len(members) |->
              IF IsNaN(members[i][c]) \/ members[i][c][1] < 0 THEN 0
              ELSE members[i][c][1]])

GroupSum(members, c) ==
    SumSeq([i \in 1..Len(members) |->
              IF IsNaN(members[i][c]) THEN 0 ELSE members[i][c][1]])

\* gb.size()
GroupSize(members) == Len(members)

\* the frame of the groups: the key columns (reset_index), a sum for every
\* column of agg_dict, and Rows
GroupFrame(groups, gcols, cols) ==
    [columns |-> cols,
     rows |-> [g \in 1..Len(groups) |->
                [c \in Range(cols) |->
                   IF c = "Rows" THEN GroupSize(groups[g].members)
                   ELSE IF c \in Range(gcols)
                        THEN groups[g].key[CHOOSE k \in 1..Len(gcols) : gcols[k] = c]
                        ELSE Num(GroupSum(groups[g].members, c))]]]

\* gb.agg(agg_dict) with grouped["Rows"] = gb.size(), or gb.size().to_frame("Rows"),
\* then reset_index()
\* the aggregation as groupby's default dropna=True would do it: rows with a
\* missing key value left out
groupby_agg_dropna(df, gcols, numeric) ==
    GroupFrame(SortGroups(GroupScan(
                   SelectSeq(df.rows,
                       LAMBDA r : \A k \in 1..Len(gcols) : r[gcols[k]] # NA),
                   gcols, <<>>)),
               gcols, gcols \o numeric \o <<"Rows">>)

groupby_agg(df, gcols, numeric) ==
    GroupFrame(SortGroups(GroupScan(df.rows, gcols, <<>>)), gcols,
               gcols \o numeric \o <<"Rows">>)

\* display_cols = ["Rows"] + [c for c in columns if c != "Rows"]
RowsFirst(cols) ==
    IF "Rows" \in Range(cols)
    THEN <<"Rows">> \o SelectSeq(cols, LAMBDA c : c # "Rows")
    ELSE cols

preferred_order == <<"Station", "Block Section", "Type",
                     "Requested Start Time", "Requested End Time",
                     "Permitted Start Time", "Permitted End Time",
                     "Clear Time", "Demanded", "Granted", "Availed", "Burst",
                     "Remark", "ID">>

\* cols_existing + remaining
ordered_cols(df) ==
    FilterSeq(preferred_order \o <<"Burst Duration (In Minutes)">>, df.columns)

NoTable == [columns |-> <<>>, rows |-> <<>>]

-----------------------------------------------------------------------------
(* The app: one run of the script *)

Orders(S) ==
    {s \in [1..Cardinality(S) -> S] : \A i, j \in 1..Cardinality(S) : s[i] = s[j] => i = j}

NoMemo == [set |-> FALSE, df |-> EmptyFrame]

\* df_merged of this run, with what the run does to the memo: the upload read
\* as it is (read_csv and read_excel are given the same na_values), or
\* load_block_data() through st.cache_data, which executes the body only while
\* it holds no value and keeps what the body returns
Sources(uf) ==
    IF uf # NoUpload
    THEN {[raised |-> ~Content(uf).parseable,
           df |-> IF Content(uf).parseable THEN read_csv(uf) ELSE EmptyFrame,
           memo |-> memo, files |-> all_files]}
    ELSE IF memo.set
         THEN {[raised |-> FALSE, df |-> memo.df, memo |-> memo, files |-> all_files]}
         ELSE {LET r == load_block_data(order)
               IN  [raised |-> r.raised, df |-> r.df,
                    memo |-> IF r.raised THEN memo ELSE [set |-> TRUE, df |-> r.df],
                    files |-> order] : order \in Orders(disk)}

\* the run ends before any widget is drawn: an exception, or st.stop()
Stopped(why, df) ==
    /\ status' = why
    /\ df_merged' = df
    /\ selected' = [label \in filters_map |-> {}]
    /\ remark_query' = <<>>
    /\ group_cols' = <<>>
    /\ selected_numeric' = <<>>
    /\ df_view' = EmptyFrame
    /\ grouped' = NoTable
    /\ display' = NoTable
    /\ UNCHANGED snapshot

\* the tables of the run and the export, from the filtered view
Output(view, gcols, agg) ==
    /\ df_view' = view
    /\ grouped' = IF gcols # <<>> THEN agg ELSE NoTable
    /\ display' = IF gcols # <<>>
                  THEN [columns |-> RowsFirst(agg.columns),
                        rows |-> format_duration_columns(agg.columns, agg.rows)]
                  ELSE [columns |-> ordered_cols(view),
                        rows |-> format_duration_columns(ordered_cols(view), view.rows)]
    /\ snapshot' = view

\* the run from the widgets' values to the export; pd.to_numeric of the chosen
\* metrics changes nothing, the metric columns being numbers already
Compute(df, sel, query, gcols, numeric, view) ==
    /\ status' = "ok"
    /\ df_merged' = df
    /\ selected' = sel
    /\ remark_query' = query
    /\ group_cols' = gcols
    /\ selected_numeric' = numeric
    /\ Output(view, gcols, groupby_agg(view, gcols, numeric))

\* the run from the drawing of the widgets on
Rendered(df, sel, query, gcols, numeric) ==
    LET sel1 == [label \in filters_map |->
                   WidgetValue(options_map(df_merged, label), options_map(df, label),
                               sel[label], {})]
        query1 == WidgetValue({}, {}, query, <<>>)
        gcols1 == WidgetValue(groupby_options(df_merged), groupby_options(df),
                              gcols, default_group(df))
        numeric1 == WidgetValue(numeric_cols(df_merged), numeric_cols(df),
                                numeric, numeric_cols(df))
    IN  Compute(df, sel1, query1, gcols1, numeric1, apply_filters(df, sel1, query1))

Script(uf, sel, query, gcols, numeric) ==
    /\ uploaded_file' = uf
    /\ \E src \in Sources(uf) :
         /\ memo' = src.memo
         /\ all_files' = src.files
         /\ IF src.raised THEN Stopped("error", EmptyFrame)
            ELSE IF IsEmpty(src.df) THEN Stopped("nodata", src.df)
            ELSE Rendered(src.df, sel, query, gcols, numeric)
    /\ UNCHANGED disk

-----------------------------------------------------------------------------
(* Steps *)

Init ==
    /\ disk \in {S \in SUBSET FileNames : Cardinality(S) <= 1}
    /\ memo = NoMemo
    /\ all_files = <<>>
    /\ uploaded_file = NoUpload
    /\ selected = [label \in filters_map |-> {}]
    /\ remark_query = <<>>
    /\ group_cols = <<>>
    /\ selected_numeric = <<>>
    /\ status = "start"
    /\ df_merged = EmptyFrame
    /\ df_view = EmptyFrame
    /\ grouped = NoTable
    /\ display = NoTable
    /\ snapshot = EmptyFrame

app_vars == <<memo, all_files, uploaded_file, selected, remark_query, group_cols,
              selected_numeric, status, df_merged, df_view, grouped, display,
              snapshot>>

\* a file is put into ./Data
AddFile ==
    \E f \in FileNames \ disk :
        /\ Cardinality(disk) < MaxFiles
        /\ disk' = disk \cup {f}
        /\ UNCHANGED app_vars

\* a file is taken out of ./Data
RemoveFile ==
    \E f \in disk :
        /\ disk' = disk \ {f}
        /\ UNCHANGED app_vars

\* how many widget settings are away from the defaults
Changed(df, sel, query, gcols, numeric) ==
    Cardinality({p \in filters_map \X UNION {sel[l] : l \in filters_map} :
                   p[2] \in sel[p[1]]})
    + (IF query = <<>> THEN 0 ELSE 1)
    + Cardinality((Range(gcols) \ Range(default_group(df)))
                  \cup (Range(default_group(df)) \ Range(gcols)))
    + Cardinality(Range(numeric_cols(df)) \ Range(numeric))

Allowed(sel, query, gcols, numeric) ==
    /\ status = "ok"
    /\ Changed(df_merged, sel, query, gcols, numeric) <= MaxChanged

\* the page is opened or reloaded
Rerun ==
    Script(uploaded_file, selected, remark_query, group_cols, selected_numeric)

\* a file is dropped on the uploader
Upload ==
    \E f \in UploadNames :
        /\ f # uploaded_file
        /\ Script(f, selected, remark_query, group_cols, selected_numeric)

\* the uploaded file is removed from the uploader
ClearUpload ==
    /\ uploaded_file # NoUpload
    /\ Script(NoUpload, selected, remark_query, group_cols, selected_numeric)

\* a value is selected in, or removed from, a filter
ToggleFilter ==
    \E label \in filters_map : \E v \in options_map(df_merged, label) :
        LET sel == [selected EXCEPT ![label] =
                      IF v \in @ THEN @ \ {v} ELSE @ \cup {v}]
        IN  /\ Allowed(sel, remark_query, group_cols, selected_numeric)
            /\ Script(uploaded_file, sel, remark_query, group_cols, selected_numeric)

\* the search text is changed
SetQuery ==
    \E q \in Queries \ {remark_query} :
        /\ Allowed(selected, q, group_cols, selected_numeric)
        /\ Script(uploaded_file, selected, q, group_cols, selected_numeric)

\* a column is added to, or removed from, the group-by columns
ToggleGroup ==
    \E c \in Range(groupby_options(df_merged)) :
        LET gcols == IF c \in Range(group_cols)
                     THEN SelectSeq(group_cols, LAMBDA x : x # c)
                     ELSE Append(group_cols, c)
        IN  /\ Allowed(selected, remark_query, gcols, selected_numeric)
            /\ Script(uploaded_file, selected, remark_query, gcols, selected_numeric)

\* a metric is added to, or removed from, the columns to sum
ToggleNumeric ==
    \E c \in Range(numeric_cols(df_merged)) :
        LET numeric == IF c \in Range(selected_numeric)
                       THEN SelectSeq(selected_numeric, LAMBDA x : x # c)
                       ELSE FilterSeq(numeric_cols(df_merged),
                                      Range(selected_numeric) \cup {c})
        IN  /\ Allowed(selected, remark_query, group_cols, numeric)
            /\ Script(uploaded_file, selected, remark_query, group_cols, numeric)

Next ==
    \/ AddFile
    \/ RemoveFile
    \/ Rerun
    \/ Upload
    \/ ClearUpload
    \/ ToggleFilter
    \/ SetQuery
    \/ ToggleGroup
    \/ ToggleNumeric

Spec == Init /\ [][Next]_vars

-----------------------------------------------------------------------------
(* Properties *)

\* a step that is a run of the script on the default path
DefaultRun == disk' = disk /\ uploaded_file' = NoUpload

\* the frames load_block_data can return for the files now in ./Data
LoadResults(files) == {load_block_data(order).df : order \in Orders(files)}

RECURSIVE Join(_, _)
Join(parts, sep) ==
    IF Len(parts) = 1 THEN parts[1]
    ELSE parts[1] \o sep \o Join(Tail(parts), sep)

Text(v) == IF v = NA THEN <<"n", "a", "n">> ELSE v

\* the Identity of a raw record
IdentityOf(r) ==
    Join(<<Text(r["Station"]), Text(r["Block Section"]), Text(r["Block Section"]),
           Text(r["Requested Start Time"]), Text(r["Requested End Time"]),
           Text(r["Permitted Start Time"]), Text(r["Permitted End Time"])>>,
         <<"/">>)

\* the merged rows load_block_data met in the execution that filled the memo
MergedRows == Merged(all_files).rows

FirstOccurrences(input) ==
    {i \in 1..Len(input) :
        \A j \in 1..(i - 1) : IdentityOf(input[j]) # IdentityOf(input[i])}

\* C1: the frame load_block_data returns holds exactly the records that are the
\* first of their Identity in the merged sequence, in merged order, each with
\* the Identity built from Station, Block Section (twice), the requested and the
\* permitted start and end; no two of them share an Identity.
C1_DedupKeepsFirstOccurrences ==
    (memo.set /\ all_files # <<>>) =>
        LET input == MergedRows
            output == memo.df.rows
        IN  /\ \A k \in 1..Len(output) :
                   output[k]["index"] + 1 \in FirstOccurrences(input)
            /\ \A i \in FirstOccurrences(input) :
                   \E k \in 1..Len(output) : output[k]["index"] = i - 1
            /\ \A k, l \in 1..Len(output) :
                   k < l => output[k]["index"] < output[l]["index"]
            /\ \A k \in 1..Len(output) :
                   LET src == input[output[k]["index"] + 1]
                   IN  /\ output[k]["ID"] = IdentityOf(src)
                       /\ \A c \in expected \ time_cols : output[k][c] = src[c]
            /\ \A k, l \in 1..Len(output) :
                   k # l => output[k]["ID"] # output[l]["ID"]

\* two files were merged, and a record was dropped that differs from the kept
\* record of its Identity in a column the Identity leaves out
C1_Witness ==
    /\ memo.set
    /\ Len(all_files) = 2
    /\ \E i, j \in 1..Len(MergedRows) :
          /\ i < j
          /\ IdentityOf(MergedRows[i]) = IdentityOf(MergedRows[j])
          /\ MergedRows[i]["Type"] # MergedRows[j]["Type"]
          /\ \E k \in 1..Len(memo.df.rows) : memo.df.rows[k]["index"] = i - 1
          /\ \A k \in 1..Len(memo.df.rows) : memo.df.rows[k]["index"] # j - 1

\* C2: whichever path supplied the data, the record set handed to filtering
\* carries the Identity and the four derived metrics and holds no two records
\* of one Identity.
C2_EveryPathIsPipelined ==
    status = "ok" =>
        /\ {"ID"} \cup derived_cols \subseteq df_merged.columns
        /\ \A i, j \in 1..Len(df_merged.rows) :
               i # j => df_merged.rows[i]["ID"] # df_merged.rows[j]["ID"]

MetricIs(r, metric, end, start) ==
    IF IsNaN(r[end]) \/ IsNaN(r[start]) THEN r[metric] = NaN
    ELSE r[metric] = <<r[end][1] - r[start][1]>>

\* C3: in the frame load_block_data returns, Demanded, Granted and Availed are
\* the differences of their two timestamps and Burst is Granted - Availed; a
\* metric is missing whenever a timestamp it depends on is missing (the raw
\* cell missing or not a time), and a difference below zero is kept as it is.
C3_MetricsAreTimestampDifferences ==
    (memo.set /\ all_files # <<>>) =>
        \A k \in 1..Len(memo.df.rows) :
            LET r == memo.df.rows[k]
                raw == MergedRows[r["index"] + 1]
            IN  /\ \A c \in time_cols :
                       IsNaN(r[c]) <=> (raw[c] = NA \/ to_datetime(Strip(raw[c])) = NaN)
                /\ MetricIs(r, "Demanded", "Requested End Time", "Requested Start Time")
                /\ MetricIs(r, "Granted", "Permitted End Time", "Permitted Start Time")
                /\ MetricIs(r, "Availed", "Clear Time", "Permitted Start Time")
                /\ IF IsNaN(r["Permitted End Time"]) \/ IsNaN(r["Permitted Start Time"])
                      \/ IsNaN(r["Clear Time"])
                   THEN r["Burst"] = NaN
                   ELSE r["Burst"] = <<r["Granted"][1] - r["Availed"][1]>>

\* a returned record whose requested start is missing while its requested end
\* is a timestamp, and whose permitted end precedes its permitted start
C3_Witness ==
    /\ memo.set
    /\ \E k \in 1..Len(memo.df.rows) :
          LET r == memo.df.rows[k]
          IN  /\ IsNaN(r["Requested Start Time"])
              /\ ~IsNaN(r["Requested End Time"])
              /\ IsNaN(r["Demanded"])
              /\ ~IsNaN(r["Granted"])
              /\ r["Granted"][1] < 0

\* the cell of a record in a column, missing when the record set lacks the column
Field(df, r, c) == IF c \in df.columns THEN r[c] ELSE NA

\* C4: the filtered view is exactly the records, in row order, whose field text
\* is among the accepted values of every filter that has any and, when a search
\* text is given, whose Remark is present and contains it, letter case ignored.
C4_ViewIsExactlyTheMatches ==
    status = "ok" =>
        df_view.rows =
            SelectSeq(df_merged.rows,
                LAMBDA r :
                    /\ \A label \in filters_map :
                           selected[label] # {} =>
                               Text(Field(df_merged, r, label)) \in selected[label]
                    /\ remark_query # <<>> =>
                           /\ Field(df_merged, r, "Remark") # NA
                           /\ Contains(Lower(Field(df_merged, r, "Remark")),
                                       Lower(remark_query)))

KeyOf(g) == [k \in 1..Len(group_cols) |-> g[group_cols[k]]]

MembersOf(key) ==
    {i \in 1..Len(df_view.rows) : GroupKey(df_view.rows[i], group_cols) = key}

RECURSIVE SumPresent(_, _, _)
SumPresent(rows, key, c) ==
    IF rows = <<>> THEN 0
    ELSE (IF GroupKey(Head(rows), group_cols) = key /\ Head(rows)[c] # NaN
          THEN Head(rows)[c][1] ELSE 0)
         + SumPresent(Tail(rows), key, c)

C7_SnapshotIsUnfiltered ==
    status = "ok" =>
        \A i \in 1..Len(df_merged.rows) :
            \E k \in 1..Len(snapshot.rows) :
                snapshot.rows[k]["index"] = df_merged.rows[i]["index"]

\* C8: the record set a run on the default path works on is the one
\* load_block_data computes from the files in ./Data at the time of the run.
C8_LoadFollowsTheSourceSet ==
    [][(DefaultRun /\ status' \in {"ok", "nodata"}) =>
           df_merged' \in LoadResults(disk')]_vars

Parseable(files) == {f \in files : Content(f).parseable}

\* C9: a run on the default path that executes load_block_data while ./Data
\* holds a file that is no table beside files that are does not fail: it works
\* on the merge of the files that are tables.
C9_UnparseableSourceIsSkipped ==
    [][(DefaultRun /\ ~memo.set /\ Parseable(disk) # {} /\ Parseable(disk) # disk) =>
           /\ status' = "ok"
           /\ df_merged' \in LoadResults(Parseable(disk'))]_vars

\* the minutes an HH:MM text with a leading sign denotes
HhmmValue(t) ==
    LET neg == Head(t) = "-"
        body == IF neg THEN Tail(t) ELSE t
        colon == CHOOSE i \in 1..Len(body) : body[i] = ":"
        hh == ParseInt(SubSeq(body, 1, colon - 1))
        mm == ParseInt(SubSeq(body, colon + 1, Len(body)))
    IN  (IF neg THEN -1 ELSE 1) * (60 * hh + mm)

\* the number behind a formatted cell of the table shown
Shown(i, c) ==
    IF group_cols # <<>> THEN grouped.rows[i][c] ELSE df_view.rows[i][c]

\* C10: a missing value is shown as the empty text, and every other value m as
\* an HH:MM text that reads back, as sign x (HH x 60 + MM), to m.
C10_FormatReadsBack ==
    status = "ok" =>
        \A i \in 1..Len(display.rows) :
            \A c \in format_cols \cap Range(display.columns) :
                IF Shown(i, c) = NaN THEN display.rows[i][c] = <<>>
                ELSE HhmmValue(display.rows[i][c]) = Shown(i, c)[1]

=============================================================================
